---- MODULE Spec2Model ----
(***************************************************************************)
(* Model of the gameplay core of src/game.js (Phaser 3.55.2): the session  *)
(* state in gameState, the scene callbacks create()/update(), the timers   *)
(* scheduled with scene.time.delayedCall and the input listeners.          *)
(*                                                                         *)
(* Positions are kept in fixed point, Unit sub-steps per pixel, so that    *)
(* the patrol step (speed * 0.7) is exact.  Math.random() is an input: an  *)
(* action draws a stream of outcomes, in thousandths, and the k-th call of *)
(* the handler reads the k-th element of the stream.                       *)
(***************************************************************************)
EXTENDS Integers, Sequences, FiniteSets, TLC

\* ---------------------------------------------------------------- constants
WIDTH == 800
HEIGHT == 600
PLAYER_SPEED == 5
ENEMY_SPEED == 4
ENEMY_COUNT == 5
COLLECTIBLE_COUNT == 10
PLAYER_SIZE == 32
ENEMY_SIZE == 48
COLLECTIBLE_SIZE == 32
SCORE_PER_COLLECTIBLE == 10
DAMAGE_PER_ENEMY == 10
MAX_HEALTH == 100
ENEMY_TYPES == <<"random", "chaser", "patrol">>

\* the patrol counter threshold of update(): moveCounter > 60
PATROL_PERIOD == 60

\* sub-steps per pixel of the fixed-point coordinates
Unit == 10

\* ------------------------------------------------------------------- bounds
MaxTicks == 6
MaxHandlers == 2
MaxTimers == 1
MaxWalkTicks == 76
MaxMenuTicks == 4
MaxMenuHandlers == 3
MaxMenuTimers == 2
MaxPatrolTicks == 128
MaxOrderTicks == 6
MaxKeyTicks == 2
MaxChaseTicks == 9
MaxReturnTicks == 4

\* ------------------------------------------------------------ random source
\* resolution of a Math.random() outcome: u stands for u / RandomScale
RandomScale == 1000

\* a stream: the first `switch` calls return `first`, the later ones `rest`
Rand(rnd, k) == IF k <= rnd.switch THEN rnd.first ELSE rnd.rest

ConstStream(u) == [switch |-> 0, first |-> u, rest |-> u]

\* streams create() and returnToStartScreen may draw: everything on the
\* centre; the enemies in a corner and the collectibles on the centre
SpawnStreams ==
  { ConstStream(500),
    [switch |-> 3 * ENEMY_COUNT, first |-> 0, rest |-> 500] }

\* streams an update() tick may draw: all low, all middle, and middle for the
\* enemy movement and the respawn followed by high for the new enemy
TickStreams ==
  { ConstStream(0), ConstStream(500),
    [switch |-> 2 * (ENEMY_COUNT + COLLECTIBLE_COUNT), first |-> 500, rest |-> 999] }

\* sets of spawn ordinals (within one handler) whose construction throws:
\* none, the first, all
NoFailure == {}
FailPatterns == { NoFailure, {1}, 1..(ENEMY_COUNT + COLLECTIBLE_COUNT) }

\* Phaser.Math.Between(min, max) = Math.floor(Math.random() * (max - min + 1) + min)
Between(min, max, u) == min + ((u * (max - min + 1)) \div RandomScale)

\* Phaser.Math.Clamp(value, min, max) = Math.max(min, Math.min(max, value))
Min(a, b) == IF a < b THEN a ELSE b
Max(a, b) == IF a > b THEN a ELSE b
Clamp(v, lo, hi) == Max(lo, Min(hi, v))

\* Phaser.Math.Distance.Between, compared squared: distance < size
Dist2(x1, y1, x2, y2) == (x1 - x2) * (x1 - x2) + (y1 - y2) * (y1 - y2)
Within(x1, y1, x2, y2, size) == Dist2(x1, y1, x2, y2) < (size * Unit) * (size * Unit)

RECURSIVE IsqrtBits(_, _, _)
IsqrtBits(n, r, b) ==
  IF b = 0 THEN r
  ELSE IF r + b <= n \div (r + b) THEN IsqrtBits(n, r + b, b \div 2)
       ELSE IsqrtBits(n, r, b \div 2)
Isqrt(n) == IsqrtBits(n, 0, 32768)

\* truncating division towards zero of a signed numerator
DivTrunc(a, b) == IF a >= 0 THEN a \div b ELSE -((-a) \div b)

VARIABLES
  player,          \* gameState.player: [x, y, visible]
  enemies,         \* gameState.enemies.getChildren(): sequence of enemy sprites
  collectibles,    \* gameState.collectibles.getChildren()
  score, health, round, enemySpeed,
  introComplete, gameOver, escapePressed,
  returnTimers,    \* pending delayedCall(100, returnToStartScreen)
  loadingTimers,   \* pending delayedCall(3000, nextStage) of runLoadingScreen
  startTimers,     \* pending delayedCall(500, startActualGame)
  startHandlers,   \* startGame listeners on the spacebar 'down' event
  restartHandlers, \* restartGame listeners on the spacebar 'down' event
  startButton,     \* a PRESS START button is visible
  restartButton,   \* a Restart button is visible
  ticks,           \* update() calls since the page was loaded
  gameOverRuns,    \* runs of the game-over block since create()/reset
  spawnFailed,     \* a construction failed since create()/reset
  last             \* what the last step did (record, see Tick)

vars == << player, enemies, collectibles, score, health, round, enemySpeed,
           introComplete, gameOver, escapePressed, returnTimers, loadingTimers,
           startTimers, startHandlers, restartHandlers, startButton,
           restartButton, ticks, gameOverRuns, spawnFailed, last >>

\* ------------------------------------------------------- groups and sprites
\* Phaser.GameObjects.Group: children is a Set kept in an array (entries);
\* getChildren() returns that array itself
Ids(group) == { group[j].id : j \in 1..Len(group) }

\* a sprite that is no member of the group: scene.add.sprite returns a new object
FreshId(group) == CHOOSE i \in 1..(Len(group) + 1) :
                    /\ i \notin Ids(group)
                    /\ \A j \in 1..(i - 1) : j \in Ids(group)

\* Group.add -> Set.set: pushes the child unless indexOf finds it
GroupAdd(group, child) == IF child.id \in Ids(group) THEN group ELSE Append(group, child)

\* Group.remove -> Set.delete: splices the child out of the array
GroupRemove(group, id) == SelectSeq(group, LAMBDA e : e.id # id)

\* Group.setVisible: Actions.SetVisible over every child
GroupSetVisible(group, v) == [j \in 1..Len(group) |-> [group[j] EXCEPT !.visible = v]]

\* GameFactory.createEnemy, when scene.add.sprite does not throw
createEnemy(id, x, y, type, u) ==
  [id |-> id, x |-> x, y |-> y, type |-> type, visible |-> TRUE,
   moveCounter |-> 0, moveDirection |-> Between(0, 3, u),
   age |-> 0, rolledAt |-> 0]

\* GameFactory.createCollectible, when scene.add.sprite does not throw
createCollectible(id, x, y) == [id |-> id, x |-> x, y |-> y, visible |-> TRUE]

\* One pass of a spawn loop for an enemy.  s carries the two groups, the index
\* k of the next Math.random() call, the ordinal n of the next construction and
\* the failure flag; size is the constant of the spawn range, hide says whether
\* the caller hides the sprite after adding it.
SpawnEnemy(s, size, type, hide, rnd, fails) ==
  LET x == Between(size, WIDTH - size, Rand(rnd, s.k)) * Unit
      y == Between(size, HEIGHT - size, Rand(rnd, s.k + 1)) * Unit
      e == createEnemy(FreshId(s.enemies), x, y, type, Rand(rnd, s.k + 2))
  IN IF s.n \in fails
     THEN [s EXCEPT !.k = s.k + 2, !.n = s.n + 1, !.failed = TRUE]
     ELSE [s EXCEPT !.k = s.k + 3, !.n = s.n + 1,
                    !.enemies = GroupAdd(s.enemies,
                                  IF hide THEN [e EXCEPT !.visible = FALSE] ELSE e)]

\* One pass of a spawn loop for a collectible
SpawnCollectible(s, hide, rnd, fails) ==
  LET x == Between(COLLECTIBLE_SIZE, WIDTH - COLLECTIBLE_SIZE, Rand(rnd, s.k)) * Unit
      y == Between(COLLECTIBLE_SIZE, HEIGHT - COLLECTIBLE_SIZE, Rand(rnd, s.k + 1)) * Unit
      c == createCollectible(FreshId(s.collectibles), x, y)
  IN IF s.n \in fails
     THEN [s EXCEPT !.k = s.k + 2, !.n = s.n + 1, !.failed = TRUE]
     ELSE [s EXCEPT !.k = s.k + 2, !.n = s.n + 1,
                    !.collectibles = GroupAdd(s.collectibles,
                                  IF hide THEN [c EXCEPT !.visible = FALSE] ELSE c)]

\* for (i = 0; i < ENEMY_COUNT; i++) of create() and returnToStartScreen:
\* 'random' enemies in the range of PLAYER_SIZE, hidden
RECURSIVE InitialEnemies(_, _, _, _)
InitialEnemies(s, i, rnd, fails) ==
  IF i >= ENEMY_COUNT THEN s
  ELSE InitialEnemies(SpawnEnemy(s, PLAYER_SIZE, "random", TRUE, rnd, fails),
                      i + 1, rnd, fails)

\* for (i = 0; i < COLLECTIBLE_COUNT; i++) of create() and returnToStartScreen
RECURSIVE InitialCollectibles(_, _, _, _)
InitialCollectibles(s, i, rnd, fails) ==
  IF i >= COLLECTIBLE_COUNT THEN s
  ELSE InitialCollectibles(SpawnCollectible(s, TRUE, rnd, fails), i + 1, rnd, fails)

\* the two populations as create() and returnToStartScreen build them
Populate(rnd, fails) ==
  InitialCollectibles(
    InitialEnemies([enemies |-> << >>, collectibles |-> << >>, k |-> 1, n |-> 1,
                    failed |-> FALSE], 0, rnd, fails),
    0, rnd, fails)

\* the populations the spawn streams and failure patterns give
Populations == { Populate(rnd, fails) : rnd \in SpawnStreams, fails \in FailPatterns }

\* the keys an update() tick reads with isDown
Key(l, r, u, d, sp, esc) ==
  [left |-> l, right |-> r, up |-> u, down |-> d, space |-> sp, esc |-> esc]

\* the record of a step that is no full update() tick
Idle == [op |-> "idle", collected |-> 0, inRange |-> 0, hits |-> 0,
         overlapping |-> 0, overlappingBefore |-> 0, attempts |-> 0,
         advances |-> 0, healthBefore |-> 0,
         failed |-> FALSE, esc |-> FALSE, resets |-> 0,
         keys |-> Key(FALSE, FALSE, FALSE, FALSE, FALSE, FALSE)]

\* ---------------------------------------------------------------- create()
\* the state when create() returns: gameState's initial fields, the player in
\* the centre, both groups populated and hidden, the title screen shown
Created(s) ==
  [player |-> [x |-> (WIDTH \div 2) * Unit, y |-> (HEIGHT \div 2) * Unit,
               visible |-> FALSE],
   enemies |-> GroupSetVisible(s.enemies, FALSE),
   collectibles |-> GroupSetVisible(s.collectibles, FALSE),
   failed |-> s.failed]

Create(populations) ==
  \E s \in populations :
    LET c == Created(s) IN
    /\ player = c.player
    /\ enemies = c.enemies
    /\ collectibles = c.collectibles
    /\ score = 0
    /\ health = MAX_HEALTH
    /\ round = 1
    /\ enemySpeed = ENEMY_SPEED
    /\ introComplete = FALSE
    /\ gameOver = FALSE
    /\ escapePressed = FALSE
    /\ returnTimers = 0
    /\ loadingTimers = 0
    /\ startTimers = 0
    /\ startHandlers = 1
    /\ restartHandlers = 0
    /\ startButton = TRUE
    /\ restartButton = FALSE
    /\ ticks = 0
    /\ gameOverRuns = 0
    /\ spawnFailed = c.failed
    /\ last = Idle

Init == Create(Populations)

\* location.reload(): the page and the scene are built anew; op names the
\* input that ran restartGame
ReloadBy(op) ==
  \E s \in Populations :
    LET c == Created(s) IN
    /\ player' = c.player
    /\ enemies' = c.enemies
    /\ collectibles' = c.collectibles
    /\ score' = 0
    /\ health' = MAX_HEALTH
    /\ round' = 1
    /\ enemySpeed' = ENEMY_SPEED
    /\ introComplete' = FALSE
    /\ gameOver' = FALSE
    /\ escapePressed' = FALSE
    /\ returnTimers' = 0
    /\ loadingTimers' = 0
    /\ startTimers' = 0
    /\ startHandlers' = 1
    /\ restartHandlers' = 0
    /\ startButton' = TRUE
    /\ restartButton' = FALSE
    /\ ticks' = 0
    /\ gameOverRuns' = 0
    /\ spawnFailed' = c.failed
    /\ last' = [Idle EXCEPT !.op = op]

Reload == ReloadBy("restart")

\* ---------------------------------------------------------------- update()
\* the key states an update() tick may read under Spec: nothing held, the
\* spacebar held, ESC held (the arrow keys are held under SpecWalk)
KeyInputs ==
  { Key(FALSE, FALSE, FALSE, FALSE, FALSE, FALSE),
    Key(FALSE, FALSE, FALSE, FALSE, TRUE, FALSE),
    Key(FALSE, FALSE, FALSE, FALSE, FALSE, TRUE) }

\* player movement controls without the clamp
MovePlayerNoClamp(p, keys) ==
  LET x1 == IF keys.left THEN p.x - PLAYER_SPEED * Unit ELSE p.x
      x2 == IF keys.right THEN x1 + PLAYER_SPEED * Unit ELSE x1
      y1 == IF keys.up THEN p.y - PLAYER_SPEED * Unit ELSE p.y
      y2 == IF keys.down THEN y1 + PLAYER_SPEED * Unit ELSE y1
  IN [p EXCEPT !.x = x2, !.y = y2]

\* a player movement with else-if: left wins over right, up over down
MovePlayerElseIf(p, keys) ==
  LET x2 == IF keys.left THEN p.x - PLAYER_SPEED * Unit
            ELSE IF keys.right THEN p.x + PLAYER_SPEED * Unit ELSE p.x
      y2 == IF keys.up THEN p.y - PLAYER_SPEED * Unit
            ELSE IF keys.down THEN p.y + PLAYER_SPEED * Unit ELSE p.y
  IN [p EXCEPT !.x = Clamp(x2, PLAYER_SIZE * Unit, (WIDTH - PLAYER_SIZE) * Unit),
               !.y = Clamp(y2, PLAYER_SIZE * Unit, (HEIGHT - PLAYER_SIZE) * Unit)]

\* player movement controls, then "keep player within bounds"
MovePlayer(p, keys) ==
  LET x1 == IF keys.left THEN p.x - PLAYER_SPEED * Unit ELSE p.x
      x2 == IF keys.right THEN x1 + PLAYER_SPEED * Unit ELSE x1
      y1 == IF keys.up THEN p.y - PLAYER_SPEED * Unit ELSE p.y
      y2 == IF keys.down THEN y1 + PLAYER_SPEED * Unit ELSE y1
  IN [p EXCEPT !.x = Clamp(x2, PLAYER_SIZE * Unit, (WIDTH - PLAYER_SIZE) * Unit),
               !.y = Clamp(y2, PLAYER_SIZE * Unit, (HEIGHT - PLAYER_SIZE) * Unit)]

\* "keep within bounds" of the enemy loop
ClampEnemy(e) ==
  [e EXCEPT !.x = Clamp(e.x, PLAYER_SIZE * Unit, (WIDTH - PLAYER_SIZE) * Unit),
            !.y = Clamp(e.y, PLAYER_SIZE * Unit, (HEIGHT - PLAYER_SIZE) * Unit)]

\* the chaser's step: cos/sin of the angle to the player times speed * 0.8,
\* speed = enemySpeed * 0.3, truncated to the fixed-point grid;
\* Math.atan2(0, 0) = 0, so a chaser on the player steps right
ChaserStep(e, p, speedScalar) ==
  LET dx == p.x - e.x
      dy == p.y - e.y
      n == dx * dx + dy * dy
      d100 == IF n < 200000 THEN Isqrt(10000 * n) ELSE 100 * Isqrt(n)
      len == speedScalar * 24 * Unit
  IN IF d100 = 0 THEN [x |-> len \div 100, y |-> 0]
     ELSE [x |-> DivTrunc(dx * len, d100), y |-> DivTrunc(dy * len, d100)]

\* the patrol's step: speed * 0.7 along moveDirection
PatrolStep(dir, speedScalar) ==
  LET len == (speedScalar * 7 * Unit) \div 10
  IN CASE dir = 0 -> [x |-> 0, y |-> -len]
       [] dir = 1 -> [x |-> 0, y |-> len]
       [] dir = 2 -> [x |-> -len, y |-> 0]
       [] OTHER   -> [x |-> len, y |-> 0]

\* the body of the enemy movement loop for one enemy; returns the enemy and
\* the index of the next Math.random() call
\* a patrol branch that re-rolls with moveCounter >= 60
MoveEnemyEarlyReroll(e, p, speedScalar, k, rnd) ==
  IF e.type = "random"
  THEN [e |-> ClampEnemy([e EXCEPT
                 !.x = e.x + Between(-speedScalar, speedScalar, Rand(rnd, k)) * Unit,
                 !.y = e.y + Between(-speedScalar, speedScalar, Rand(rnd, k + 1)) * Unit]),
        k |-> k + 2]
  ELSE IF e.type = "chaser" /\ p.visible
  THEN LET st == ChaserStep(e, p, speedScalar)
       IN [e |-> ClampEnemy([e EXCEPT !.x = e.x + st.x, !.y = e.y + st.y]), k |-> k]
  ELSE IF e.type = "patrol"
  THEN LET reroll == e.moveCounter + 1 >= PATROL_PERIOD
           dir == IF reroll THEN Between(0, 3, Rand(rnd, k)) ELSE e.moveDirection
           st == PatrolStep(dir, speedScalar)
       IN [e |-> ClampEnemy([e EXCEPT !.moveCounter = IF reroll THEN 0 ELSE e.moveCounter + 1,
                                      !.moveDirection = dir,
                                      !.age = e.age + 1,
                                      !.rolledAt = IF reroll THEN e.age + 1
                                                   ELSE e.rolledAt,
                                      !.x = e.x + st.x, !.y = e.y + st.y]),
           k |-> IF reroll THEN k + 1 ELSE k]
  ELSE [e |-> ClampEnemy(e), k |-> k]

\* the callback of the enemy movement loop for the enemy e; age and rolledAt
\* are history: the patrol ticks the enemy has made, and the one of its last
\* re-roll
MoveEnemy(e, p, speedScalar, k, rnd) ==
  IF e.type = "random"
  THEN [e |-> ClampEnemy([e EXCEPT
                 !.x = e.x + Between(-speedScalar, speedScalar, Rand(rnd, k)) * Unit,
                 !.y = e.y + Between(-speedScalar, speedScalar, Rand(rnd, k + 1)) * Unit]),
        k |-> k + 2]
  ELSE IF e.type = "chaser" /\ p.visible
  THEN LET st == ChaserStep(e, p, speedScalar)
       IN [e |-> ClampEnemy([e EXCEPT !.x = e.x + st.x, !.y = e.y + st.y]), k |-> k]
  ELSE IF e.type = "patrol"
  THEN LET reroll == e.moveCounter + 1 > PATROL_PERIOD
           dir == IF reroll THEN Between(0, 3, Rand(rnd, k)) ELSE e.moveDirection
           st == PatrolStep(dir, speedScalar)
       IN [e |-> ClampEnemy([e EXCEPT !.moveCounter = IF reroll THEN 0 ELSE e.moveCounter + 1,
                                      !.moveDirection = dir,
                                      !.age = e.age + 1,
                                      !.rolledAt = IF reroll THEN e.age + 1
                                                   ELSE e.rolledAt,
                                      !.x = e.x + st.x, !.y = e.y + st.y]),
           k |-> IF reroll THEN k + 1 ELSE k]
  ELSE [e |-> ClampEnemy(e), k |-> k]

\* gameState.enemies.getChildren().forEach(...) of the movement section
RECURSIVE MoveEnemies(_, _, _)
MoveEnemies(w, i, rnd) ==
  IF i > Len(w.enemies) THEN w
  ELSE LET m == MoveEnemy(w.enemies[i], w.player, w.enemySpeed, w.k, rnd)
       IN MoveEnemies([w EXCEPT !.enemies[i] = m.e, !.k = m.k], i + 1, rnd)

\* a respawn loop that runs once too often (i <= COLLECTIBLE_COUNT)
RECURSIVE RespawnOneMore(_, _, _, _)
RespawnOneMore(s, i, rnd, fails) ==
  IF i > COLLECTIBLE_COUNT THEN s
  ELSE RespawnOneMore(SpawnCollectible(s, FALSE, rnd, fails), i + 1, rnd, fails)

\* a respawn loop that a failed construction ends
RECURSIVE RespawnUntilFailure(_, _, _, _)
RespawnUntilFailure(s, i, rnd, fails) ==
  IF i >= COLLECTIBLE_COUNT \/ s.failed THEN s
  ELSE RespawnUntilFailure(SpawnCollectible(s, FALSE, rnd, fails), i + 1, rnd, fails)

\* "respawn collectibles": for (i = 0; i < COLLECTIBLE_COUNT; i++), not hidden
RECURSIVE Respawn(_, _, _, _)
Respawn(s, i, rnd, fails) ==
  IF i >= COLLECTIBLE_COUNT THEN s
  ELSE Respawn(SpawnCollectible(s, FALSE, rnd, fails), i + 1, rnd, fails)

\* a round advance that forgets enemySpeed += 1
RoundAdvanceNoSpeed(w, rnd, fails) ==
  LET w1 == [w EXCEPT !.round = w.round + 1, !.advances = w.advances + 1]
      s0 == [enemies |-> w1.enemies, collectibles |-> w1.collectibles,
             k |-> w1.k, n |-> w1.n, failed |-> w1.failed]
      s1 == Respawn(s0, 0, rnd, fails)
      type == ENEMY_TYPES[Between(0, Len(ENEMY_TYPES) - 1, Rand(rnd, s1.k)) + 1]
      s2 == IF w1.round >= 2
            THEN SpawnEnemy([s1 EXCEPT !.k = s1.k + 1], ENEMY_SIZE, type, FALSE, rnd, fails)
            ELSE s1
  IN [w1 EXCEPT !.enemies = s2.enemies, !.collectibles = s2.collectibles,
                !.k = s2.k, !.n = s2.n, !.failed = s2.failed]

\* a round advance that adds enemies from round 3 on only
RoundAdvanceLateEnemy(w, rnd, fails) ==
  LET w1 == [w EXCEPT !.round = w.round + 1, !.enemySpeed = w.enemySpeed + 1,
                      !.advances = w.advances + 1]
      s0 == [enemies |-> w1.enemies, collectibles |-> w1.collectibles,
             k |-> w1.k, n |-> w1.n, failed |-> w1.failed]
      s1 == Respawn(s0, 0, rnd, fails)
      type == ENEMY_TYPES[Between(0, Len(ENEMY_TYPES) - 1, Rand(rnd, s1.k)) + 1]
      s2 == IF w1.round >= 3
            THEN SpawnEnemy([s1 EXCEPT !.k = s1.k + 1], ENEMY_SIZE, type, FALSE, rnd, fails)
            ELSE s1
  IN [w1 EXCEPT !.enemies = s2.enemies, !.collectibles = s2.collectibles,
                !.k = s2.k, !.n = s2.n, !.failed = s2.failed]

\* a round advance that pays a bonus of SCORE_PER_COLLECTIBLE per round
RoundAdvanceBonus(w, rnd, fails) ==
  LET w1 == [w EXCEPT !.round = w.round + 1, !.enemySpeed = w.enemySpeed + 1,
                      !.advances = w.advances + 1,
                      !.score = w.score + SCORE_PER_COLLECTIBLE * w.round]
      s0 == [enemies |-> w1.enemies, collectibles |-> w1.collectibles,
             k |-> w1.k, n |-> w1.n, failed |-> w1.failed]
      s1 == Respawn(s0, 0, rnd, fails)
      type == ENEMY_TYPES[Between(0, Len(ENEMY_TYPES) - 1, Rand(rnd, s1.k)) + 1]
      s2 == IF w1.round >= 2
            THEN SpawnEnemy([s1 EXCEPT !.k = s1.k + 1], ENEMY_SIZE, type, FALSE, rnd, fails)
            ELSE s1
  IN [w1 EXCEPT !.enemies = s2.enemies, !.collectibles = s2.collectibles,
                !.k = s2.k, !.n = s2.n, !.failed = s2.failed]

\* "start new round": round++, enemySpeed += 1, the respawn and, from round 2
\* on, one enemy of a type picked by Phaser.Math.RND.pick in the range of
\* ENEMY_SIZE
RoundAdvance(w, rnd, fails) ==
  LET w1 == [w EXCEPT !.round = w.round + 1, !.enemySpeed = w.enemySpeed + 1,
                      !.advances = w.advances + 1]
      s0 == [enemies |-> w1.enemies, collectibles |-> w1.collectibles,
             k |-> w1.k, n |-> w1.n, failed |-> w1.failed]
      s1 == Respawn(s0, 0, rnd, fails)
      type == ENEMY_TYPES[Between(0, Len(ENEMY_TYPES) - 1, Rand(rnd, s1.k)) + 1]
      s2 == IF w1.round >= 2
            THEN SpawnEnemy([s1 EXCEPT !.k = s1.k + 1], ENEMY_SIZE, type, FALSE, rnd, fails)
            ELSE s1
  IN [w1 EXCEPT !.enemies = s2.enemies, !.collectibles = s2.collectibles,
                !.k = s2.k, !.n = s2.n, !.failed = s2.failed]

\* the callback of the collectible loop for the collectible c
Collect(w, c, rnd, fails) ==
  IF c.visible /\ w.player.visible
     /\ Within(w.player.x, w.player.y, c.x, c.y, COLLECTIBLE_SIZE)
  THEN LET w1 == [w EXCEPT !.collectibles = GroupRemove(w.collectibles, c.id),
                           !.score = w.score + SCORE_PER_COLLECTIBLE,
                           !.collected = w.collected + 1]
       IN IF Len(w1.collectibles) = 0 THEN RoundAdvance(w1, rnd, fails) ELSE w1
  ELSE w

\* a collectible loop that reads the length of the group on every iteration
RECURSIVE CollectLoopLiveLength(_, _, _, _, _)
CollectLoopLiveLength(w, i, len, rnd, fails) ==
  IF i > Len(w.collectibles) THEN w
  ELSE CollectLoopLiveLength(Collect(w, w.collectibles[i], rnd, fails), i + 1, len, rnd, fails)

\* gameState.collectibles.getChildren().forEach(...): Array.prototype.forEach
\* over the group's own array, which the callback splices and pushes to; the
\* length is read once, an index that is no longer present is skipped
RECURSIVE CollectLoop(_, _, _, _, _)
CollectLoop(w, i, len, rnd, fails) ==
  IF i > len THEN w
  ELSE IF i > Len(w.collectibles) THEN CollectLoop(w, i + 1, len, rnd, fails)
  ELSE CollectLoop(Collect(w, w.collectibles[i], rnd, fails), i + 1, len, rnd, fails)

\* the game-over block without the three setVisible(false)
GameOverBlockNoHide(w) ==
  [w EXCEPT !.gameOver = TRUE,
            !.gameOverRuns = w.gameOverRuns + 1,
            !.restartHandlers = w.restartHandlers + 1,
            !.restartButton = TRUE]

\* the game-over block: gameOver, the three setVisible(false), the texts, the
\* Restart button and its listeners, playGameOverSound
GameOverBlock(w) ==
  [w EXCEPT !.gameOver = TRUE,
            !.player.visible = FALSE,
            !.enemies = GroupSetVisible(w.enemies, FALSE),
            !.collectibles = GroupSetVisible(w.collectibles, FALSE),
            !.gameOverRuns = w.gameOverRuns + 1,
            !.restartHandlers = w.restartHandlers + 1,
            !.restartButton = TRUE]

\* a collision callback with a per-tick debounce: one hit per tick
HitDebounced(w, e) ==
  IF e.visible /\ w.player.visible /\ w.hits = 0
     /\ Within(w.player.x, w.player.y, e.x, e.y, ENEMY_SIZE)
  THEN LET w1 == [w EXCEPT !.health = w.health - DAMAGE_PER_ENEMY, !.hits = w.hits + 1]
       IN IF w1.health <= 0 THEN GameOverBlock(w1) ELSE w1
  ELSE w

\* a collision callback that ends the game only below zero (health < 0)
HitStrict(w, e) ==
  IF e.visible /\ w.player.visible
     /\ Within(w.player.x, w.player.y, e.x, e.y, ENEMY_SIZE)
  THEN LET w1 == [w EXCEPT !.health = w.health - DAMAGE_PER_ENEMY, !.hits = w.hits + 1]
       IN IF w1.health < 0 THEN GameOverBlock(w1) ELSE w1
  ELSE w

\* the callback of the enemy collision loop for the enemy e
Hit(w, e) ==
  IF e.visible /\ w.player.visible
     /\ Within(w.player.x, w.player.y, e.x, e.y, ENEMY_SIZE)
  THEN LET w1 == [w EXCEPT !.health = w.health - DAMAGE_PER_ENEMY, !.hits = w.hits + 1]
       IN IF w1.health <= 0 THEN GameOverBlock(w1) ELSE w1
  ELSE w

\* gameState.enemies.getChildren().forEach(...) of the collision section
RECURSIVE HitLoop(_, _)
HitLoop(w, i) ==
  IF i > Len(w.enemies) THEN w
  ELSE HitLoop(Hit(w, w.enemies[i]), i + 1)

\* the number of members of a group that are visible and nearer than size to
\* the visible player
InRange(group, p, size) ==
  IF p.visible
  THEN Cardinality({ j \in 1..Len(group) :
         group[j].visible /\ Within(p.x, p.y, group[j].x, group[j].y, size) })
  ELSE 0

\* the session as update() finds it
World ==
  [player |-> player, enemies |-> enemies, collectibles |-> collectibles,
   score |-> score, health |-> health, round |-> round, enemySpeed |-> enemySpeed,
   gameOver |-> gameOver, gameOverRuns |-> gameOverRuns,
   restartHandlers |-> restartHandlers, restartButton |-> restartButton,
   k |-> 1, n |-> 1, failed |-> FALSE, collected |-> 0, hits |-> 0, advances |-> 0]

\* update() from the player movement to the spacebar block
Moved(keys) == [World EXCEPT !.player = MovePlayer(player, keys)]

\* the spacebar block returns during active gameplay
SpaceBlocked(keys) == keys.space /\ ~ (~introComplete \/ gameOver)

\* an enemy movement section that runs before the player has moved
MovementSectionStalePlayer(w, rnd) ==
  [MoveEnemies([w EXCEPT !.player = player], 1, rnd) EXCEPT !.player = w.player]

\* the enemy movement section
MovementSection(w, rnd) == MoveEnemies(w, 1, rnd)

\* the collectible collision section
CollectibleSection(w, rnd, fails) ==
  IF introComplete /\ ~w.gameOver
  THEN CollectLoop(w, 1, Len(w.collectibles), rnd, fails)
  ELSE w

\* the enemy collision section
EnemySection(w) ==
  IF introComplete /\ ~w.gameOver THEN HitLoop(w, 1) ELSE w

\* the assignment of a world to the session variables
Commit(w) ==
  /\ player' = w.player
  /\ enemies' = w.enemies
  /\ collectibles' = w.collectibles
  /\ score' = w.score
  /\ health' = w.health
  /\ round' = w.round
  /\ enemySpeed' = w.enemySpeed
  /\ gameOver' = w.gameOver
  /\ gameOverRuns' = w.gameOverRuns
  /\ restartHandlers' = w.restartHandlers
  /\ restartButton' = w.restartButton
  /\ spawnFailed' = (spawnFailed \/ w.failed)

\* an ESC branch that forgets gameState.escapePressed = true
UpdateEscapeNoLatch(keys, maxHandlers) ==
  /\ keys.esc /\ ~escapePressed
  /\ returnTimers + startHandlers < maxHandlers
  /\ escapePressed' = FALSE
  /\ returnTimers' = returnTimers + 1
  /\ last' = [Idle EXCEPT !.op = "escape", !.esc = TRUE]
  /\ UNCHANGED << player, enemies, collectibles, score, health, round, enemySpeed,
                  gameOver, gameOverRuns, restartHandlers, restartButton, spawnFailed >>

\* a tick in which a new ESC press is detected: the delayed call is scheduled
\* and update() returns.  Every reset adds a start listener, so the number of
\* ESC presses is capped by maxHandlers.
UpdateEscape(keys, maxHandlers) ==
  /\ keys.esc /\ ~escapePressed
  /\ returnTimers + startHandlers < maxHandlers
  /\ escapePressed' = TRUE
  /\ returnTimers' = returnTimers + 1
  /\ last' = [Idle EXCEPT !.op = "escape", !.esc = TRUE]
  /\ UNCHANGED << player, enemies, collectibles, score, health, round, enemySpeed,
                  gameOver, gameOverRuns, restartHandlers, restartButton, spawnFailed >>

\* a tick that stops at "if (gameState.gameOver) return"
UpdateGameOver(keys) ==
  /\ ~ (keys.esc /\ ~escapePressed)
  /\ gameOver
  /\ escapePressed' = (escapePressed /\ keys.esc)
  /\ last' = [Idle EXCEPT !.op = "over", !.esc = keys.esc]
  /\ UNCHANGED << player, enemies, collectibles, score, health, round, enemySpeed,
                  gameOver, gameOverRuns, restartHandlers, restartButton, spawnFailed,
                  returnTimers >>

\* a tick that moves the player and returns in the spacebar block
UpdateBlocked(keys) ==
  /\ ~ (keys.esc /\ ~escapePressed)
  /\ ~gameOver
  /\ SpaceBlocked(keys)
  /\ escapePressed' = (escapePressed /\ keys.esc)
  /\ Commit(Moved(keys))
  /\ last' = [Idle EXCEPT !.op = "blocked", !.esc = keys.esc, !.keys = keys,
                          !.inRange = InRange(collectibles, Moved(keys).player,
                                              COLLECTIBLE_SIZE),
                          !.overlapping = InRange(enemies, Moved(keys).player,
                                                  ENEMY_SIZE),
                          !.healthBefore = health]
  /\ UNCHANGED returnTimers

\* an update() that runs the enemy pass before the collectible pass
UpdateFullEnemyFirst(keys, rnd) ==
  /\ ~ (keys.esc /\ ~escapePressed)
  /\ ~gameOver
  /\ ~SpaceBlocked(keys)
  /\ LET m0 == MovementSection(Moved(keys), rnd)
         m == EnemySection(m0)
         c0 == CollectibleSection(m, rnd, NoFailure)
     IN \E fails \in (IF c0.n > 1 THEN FailPatterns ELSE {NoFailure}) :
          LET c == IF fails = NoFailure THEN c0 ELSE CollectibleSection(m, rnd, fails)
              w == c
          IN /\ Commit(w)
             /\ last' = [op |-> "update",
                         collected |-> w.collected,
                         inRange |-> IF introComplete
                                     THEN InRange(m0.collectibles, m0.player, COLLECTIBLE_SIZE)
                                     ELSE 0,
                         hits |-> w.hits,
                         overlapping |-> IF introComplete
                                         THEN InRange(c.enemies, c.player, ENEMY_SIZE)
                                         ELSE 0,
                         overlappingBefore |-> IF introComplete
                                               THEN InRange(m0.enemies, m0.player, ENEMY_SIZE)
                                               ELSE 0,
                         attempts |-> w.n - 1,
                         advances |-> w.advances,
                         healthBefore |-> m0.health,
                         failed |-> w.failed,
                         esc |-> keys.esc,
                         resets |-> 0,
                         keys |-> keys]
  /\ escapePressed' = (escapePressed /\ keys.esc)
  /\ UNCHANGED returnTimers

\* a tick that runs to the end of update(); a failure pattern is drawn only
\* in a tick that constructs sprites
UpdateFull(keys, rnd) ==
  /\ ~ (keys.esc /\ ~escapePressed)
  /\ ~gameOver
  /\ ~SpaceBlocked(keys)
  /\ LET m == MovementSection(Moved(keys), rnd)
         c0 == CollectibleSection(m, rnd, NoFailure)
     IN \E fails \in (IF c0.n > 1 THEN FailPatterns ELSE {NoFailure}) :
          LET c == IF fails = NoFailure THEN c0 ELSE CollectibleSection(m, rnd, fails)
              w == EnemySection(c)
          IN /\ Commit(w)
             /\ last' = [op |-> "update",
                         collected |-> w.collected,
                         inRange |-> IF introComplete
                                     THEN InRange(m.collectibles, m.player, COLLECTIBLE_SIZE)
                                     ELSE 0,
                         hits |-> w.hits,
                         overlapping |-> IF introComplete
                                         THEN InRange(c.enemies, c.player, ENEMY_SIZE)
                                         ELSE 0,
                         overlappingBefore |-> IF introComplete
                                               THEN InRange(m.enemies, m.player, ENEMY_SIZE)
                                               ELSE 0,
                         attempts |-> w.n - 1,
                         advances |-> w.advances,
                         healthBefore |-> c.health,
                         failed |-> w.failed,
                         esc |-> keys.esc,
                         resets |-> 0,
                         keys |-> keys]
  /\ escapePressed' = (escapePressed /\ keys.esc)
  /\ UNCHANGED returnTimers

\* update(): one frame, with the keys and the random stream drawn from the
\* given sets
UpdateWith(keySet, streamSet, maxTicks, maxHandlers) ==
  /\ ticks < maxTicks
  /\ ticks' = ticks + 1
  /\ \E keys \in keySet :
       \/ UpdateEscape(keys, maxHandlers)
       \/ UpdateGameOver(keys)
       \/ UpdateBlocked(keys)
       \/ \E rnd \in streamSet : UpdateFull(keys, rnd)
  /\ UNCHANGED << introComplete, loadingTimers, startTimers, startHandlers, startButton >>

Update == UpdateWith(KeyInputs, TickStreams, MaxTicks, MaxHandlers)

\* ------------------------------------------------------- listeners and timers
\* startGame, n times: the title elements (and whatever else is no game
\* entity or HUD text) are hidden and runLoadingScreen schedules its
\* delayedCall(3000); the pending loading and start timers are capped by
\* maxTimers
StartGame(n, maxTimers) ==
  /\ loadingTimers + startTimers + n <= maxTimers
  /\ loadingTimers' = loadingTimers + n
  /\ startButton' = FALSE
  /\ restartButton' = FALSE
  /\ UNCHANGED << player, enemies, collectibles, score, health, round, enemySpeed,
                  introComplete, gameOver, escapePressed, returnTimers, startTimers,
                  startHandlers, restartHandlers, ticks, gameOverRuns, spawnFailed >>

\* a keydown of the spacebar: the Key emits 'down' to every listener added by
\* showTitleScreen (startGame) and by the game-over block (restartGame)
SpaceDown(maxTimers) ==
  IF restartHandlers > 0
  THEN ReloadBy("space")
  ELSE StartGame(startHandlers, maxTimers) /\ last' = [Idle EXCEPT !.op = "space"]

PressSpace == SpaceDown(MaxTimers)

\* pointerdown on a visible PRESS START button
StartClick(maxTimers) ==
  /\ startButton
  /\ StartGame(1, maxTimers)
  /\ last' = [Idle EXCEPT !.op = "click"]

ClickStart == StartClick(MaxTimers)

\* pointerdown on the visible Restart button
ClickRestart ==
  /\ restartButton
  /\ Reload

\* the delayedCall(3000) of runLoadingScreen: nextStage schedules
\* delayedCall(500, startActualGame)
LoadingDone ==
  /\ loadingTimers > 0
  /\ loadingTimers' = loadingTimers - 1
  /\ startTimers' = startTimers + 1
  /\ last' = Idle
  /\ UNCHANGED << player, enemies, collectibles, score, health, round, enemySpeed,
                  introComplete, gameOver, escapePressed, returnTimers,
                  startHandlers, restartHandlers, startButton, restartButton,
                  ticks, gameOverRuns, spawnFailed >>

\* GameLogicSystem.startActualGame, run by the delayedCall(500)
startActualGame ==
  /\ startTimers > 0
  /\ startTimers' = startTimers - 1
  /\ player' = [player EXCEPT !.visible = TRUE]
  /\ enemies' = GroupSetVisible(enemies, TRUE)
  /\ collectibles' = GroupSetVisible(collectibles, TRUE)
  /\ introComplete' = TRUE
  /\ last' = Idle
  /\ UNCHANGED << score, health, round, enemySpeed, gameOver, escapePressed,
                  returnTimers, loadingTimers, startHandlers, restartHandlers,
                  startButton, restartButton, ticks, gameOverRuns, spawnFailed >>

\* the record of a returnToStartScreen step, with the health it found and the
\* number of calls that ran in a row
Reset == [Idle EXCEPT !.op = "reset", !.healthBefore = health,
                      !.resets = IF last.op = "reset" THEN last.resets + 1 ELSE 1]

\* a returnToStartScreen that forgets gameState.enemies.clear(true, true)
returnToStartScreenNoClear ==
  /\ returnTimers > 0
  /\ returnTimers' = returnTimers - 1
  /\ \E s \in Populations :
       /\ enemies' = GroupSetVisible(enemies, FALSE) \o
                       [j \in 1..Len(s.enemies) |->
                          [s.enemies[j] EXCEPT !.id = Len(enemies) + j]]
       /\ collectibles' = s.collectibles
       /\ spawnFailed' = s.failed
  /\ score' = 0
  /\ health' = MAX_HEALTH
  /\ round' = 1
  /\ enemySpeed' = ENEMY_SPEED
  /\ introComplete' = FALSE
  /\ gameOver' = FALSE
  /\ player' = [player EXCEPT !.visible = FALSE]
  /\ restartButton' = FALSE
  /\ startButton' = TRUE
  /\ startHandlers' = startHandlers + 1
  /\ gameOverRuns' = 0
  /\ last' = Reset
  /\ UNCHANGED << escapePressed, loadingTimers, startTimers, restartHandlers, ticks >>

\* a returnToStartScreen that forgets gameState.round = 1
returnToStartScreenKeepsRound ==
  /\ returnTimers > 0
  /\ returnTimers' = returnTimers - 1
  /\ \E s \in Populations :
       /\ enemies' = s.enemies
       /\ collectibles' = s.collectibles
       /\ spawnFailed' = s.failed
  /\ score' = 0
  /\ health' = MAX_HEALTH
  /\ enemySpeed' = ENEMY_SPEED
  /\ introComplete' = FALSE
  /\ gameOver' = FALSE
  /\ player' = [player EXCEPT !.visible = FALSE]
  /\ restartButton' = FALSE
  /\ startButton' = TRUE
  /\ startHandlers' = startHandlers + 1
  /\ gameOverRuns' = 0
  /\ last' = Reset
  /\ UNCHANGED << round, escapePressed, loadingTimers, startTimers, restartHandlers, ticks >>

\* a returnToStartScreen that forgets gameState.score = 0
returnToStartScreenKeepsScore ==
  /\ returnTimers > 0
  /\ returnTimers' = returnTimers - 1
  /\ \E s \in Populations :
       /\ enemies' = s.enemies
       /\ collectibles' = s.collectibles
       /\ spawnFailed' = s.failed
  /\ health' = MAX_HEALTH
  /\ round' = 1
  /\ enemySpeed' = ENEMY_SPEED
  /\ introComplete' = FALSE
  /\ gameOver' = FALSE
  /\ player' = [player EXCEPT !.visible = FALSE]
  /\ restartButton' = FALSE
  /\ startButton' = TRUE
  /\ startHandlers' = startHandlers + 1
  /\ gameOverRuns' = 0
  /\ last' = Reset
  /\ UNCHANGED << score, escapePressed, loadingTimers, startTimers, restartHandlers, ticks >>

\* a returnToStartScreen that puts the player back on the centre
returnToStartScreenRecentres ==
  /\ returnTimers > 0
  /\ returnTimers' = returnTimers - 1
  /\ \E s \in Populations :
       /\ enemies' = s.enemies
       /\ collectibles' = s.collectibles
       /\ spawnFailed' = s.failed
  /\ score' = 0
  /\ health' = MAX_HEALTH
  /\ round' = 1
  /\ enemySpeed' = ENEMY_SPEED
  /\ introComplete' = FALSE
  /\ gameOver' = FALSE
  /\ player' = [x |-> (WIDTH \div 2) * Unit, y |-> (HEIGHT \div 2) * Unit,
                visible |-> FALSE]
  /\ restartButton' = FALSE
  /\ startButton' = TRUE
  /\ startHandlers' = startHandlers + 1
  /\ gameOverRuns' = 0
  /\ last' = Reset
  /\ UNCHANGED << escapePressed, loadingTimers, startTimers, restartHandlers, ticks >>

\* scene.returnToStartScreen, run by the delayedCall(100) of update()
returnToStartScreen ==
  /\ returnTimers > 0
  /\ returnTimers' = returnTimers - 1
  /\ \E s \in Populations :
       /\ enemies' = s.enemies
       /\ collectibles' = s.collectibles
       /\ spawnFailed' = s.failed
  /\ score' = 0
  /\ health' = MAX_HEALTH
  /\ round' = 1
  /\ enemySpeed' = ENEMY_SPEED
  /\ introComplete' = FALSE
  /\ gameOver' = FALSE
  /\ player' = [player EXCEPT !.visible = FALSE]
  /\ restartButton' = FALSE
  /\ startButton' = TRUE
  /\ startHandlers' = startHandlers + 1
  /\ gameOverRuns' = 0
  /\ last' = Reset
  /\ UNCHANGED << escapePressed, loadingTimers, startTimers, restartHandlers, ticks >>

Next ==
  \/ Update
  \/ PressSpace
  \/ ClickStart
  \/ ClickRestart
  \/ LoadingDone
  \/ startActualGame
  \/ returnToStartScreen

Spec == Init /\ [][Next]_vars

\* ------------------------------------------------------------ the long walk
\* The same scene driven for many frames by the arrow keys alone, so that the
\* player crosses the whole field: the enemies spawn in the corner, the
\* collectibles on the centre, the random enemies draw the middle outcome.
\* the walk holds left and up, or right and down, and never turns back
WalkKeys ==
  LET cx == (WIDTH \div 2) * Unit
      cy == (HEIGHT \div 2) * Unit
  IN { k \in { Key(TRUE, FALSE, TRUE, FALSE, FALSE, FALSE),
               Key(FALSE, TRUE, FALSE, TRUE, FALSE, FALSE) } :
         /\ k.left => (player.x <= cx /\ player.y <= cy)
         /\ k.right => (player.x >= cx /\ player.y >= cy) }

WalkStreams == { ConstStream(500) }

WalkPopulation == Populate([switch |-> 3 * ENEMY_COUNT, first |-> 0, rest |-> 500], NoFailure)

InitWalk == Init /\ enemies = Created(WalkPopulation).enemies
                 /\ collectibles = Created(WalkPopulation).collectibles

WalkUpdate == UpdateWith(WalkKeys, WalkStreams, MaxWalkTicks, MaxHandlers)

NextWalk ==
  \/ WalkUpdate
  \/ ClickStart
  \/ LoadingDone
  \/ startActualGame

SpecWalk == InitWalk /\ [][NextWalk]_vars

\* ----------------------------------------------------------------- the menu
\* The same scene with room for several ESC presses and several pending
\* timers, over a few frames with no arrow key and the middle random outcome.
\* Phaser's clock runs every delayedCall whose delay has elapsed and nothing
\* in the scene removes one, so a pending timer eventually fires.
MenuKeys ==
  { Key(FALSE, FALSE, FALSE, FALSE, FALSE, FALSE),
    Key(FALSE, FALSE, FALSE, FALSE, FALSE, TRUE) }

MenuStreams == { ConstStream(500) }

MenuUpdate == UpdateWith(MenuKeys, MenuStreams, MaxMenuTicks, MaxMenuHandlers)

MenuPressSpace == SpaceDown(MaxMenuTimers)

MenuClickStart == StartClick(MaxMenuTimers)

NextMenu ==
  \/ MenuUpdate
  \/ MenuPressSpace
  \/ MenuClickStart
  \/ ClickRestart
  \/ LoadingDone
  \/ startActualGame
  \/ returnToStartScreen

SpecMenu ==
  /\ Init /\ [][NextMenu]_vars
  /\ WF_vars(returnToStartScreen)
  /\ WF_vars(LoadingDone)
  /\ WF_vars(startActualGame)

\* --------------------------------------------------------------- the patrol
\* The scene left alone for many frames: the player stays on the centre and
\* collects the first batch, the random outcomes of the round advance put the
\* next batch out of reach and pick a 'patrol' enemy, which then patrols.
PatrolKeys == { Key(FALSE, FALSE, FALSE, FALSE, FALSE, FALSE) }

PatrolStreams == { [switch |-> 2 * ENEMY_COUNT + 1, first |-> 500, rest |-> 999] }

PatrolUpdate == UpdateWith(PatrolKeys, PatrolStreams, MaxPatrolTicks, MaxHandlers)

NextPatrol ==
  \/ PatrolUpdate
  \/ ClickStart
  \/ LoadingDone
  \/ startActualGame

SpecPatrol == InitWalk /\ [][NextPatrol]_vars

\* ---------------------------------------------------------------- the order
\* The scene with the collectibles on the player and either no enemy or
\* three of the five enemies on the player, left alone or with the spacebar
\* held: the last collectible of the round falls in the tick whose enemy pass
\* may be lethal.
OrderPopulations ==
  { WalkPopulation,
    Populate([switch |-> 3 * (ENEMY_COUNT - 3), first |-> 0, rest |-> 500], NoFailure) }

OrderKeys ==
  { Key(FALSE, FALSE, FALSE, FALSE, FALSE, FALSE),
    Key(FALSE, FALSE, FALSE, FALSE, TRUE, FALSE) }

OrderStreams == { ConstStream(500) }

InitOrder == Create(OrderPopulations)

OrderUpdate == UpdateWith(OrderKeys, OrderStreams, MaxOrderTicks, MaxHandlers)

NextOrder ==
  \/ OrderUpdate
  \/ ClickStart
  \/ LoadingDone
  \/ startActualGame

SpecOrder == InitOrder /\ [][NextOrder]_vars

\* ----------------------------------------------------------------- the keys
\* The scene of the long walk for a few frames with every combination of the
\* four arrow keys.
ArrowKeys ==
  { Key(l, r, u, d, FALSE, FALSE) : l \in BOOLEAN, r \in BOOLEAN,
                                    u \in BOOLEAN, d \in BOOLEAN }

KeysUpdate == UpdateWith(ArrowKeys, WalkStreams, MaxKeyTicks, MaxHandlers)

NextKeys ==
  \/ KeysUpdate
  \/ ClickStart
  \/ LoadingDone
  \/ startActualGame

SpecKeys == InitWalk /\ [][NextKeys]_vars

\* ---------------------------------------------------------------- the chase
\* The scene of the order, in which the round advance picks a 'chaser' and
\* puts it on the centre: once a chaser is there the player stands, walks up,
\* walks down and left, or ESC is held.
Chasers == { j \in 1..Len(enemies) : enemies[j].type = "chaser" }

ChaseKeys ==
  IF Chasers # {} /\ ~gameOver
  THEN { Key(FALSE, FALSE, FALSE, FALSE, FALSE, FALSE),
         Key(FALSE, FALSE, TRUE, FALSE, FALSE, FALSE),
         Key(TRUE, FALSE, FALSE, TRUE, FALSE, FALSE),
         Key(FALSE, FALSE, FALSE, FALSE, FALSE, TRUE) }
  ELSE { Key(FALSE, FALSE, FALSE, FALSE, FALSE, FALSE) }

ChaseUpdate == UpdateWith(ChaseKeys, OrderStreams, MaxChaseTicks, MaxHandlers)

NextChase ==
  \/ ChaseUpdate
  \/ ClickStart
  \/ LoadingDone
  \/ startActualGame

SpecChase == InitOrder /\ [][NextChase]_vars

\* --------------------------------------------------------------- the return
\* The walk scene with ESC: the player walks right or up, or ESC is held, and
\* the return to the start screen and a new start can follow.
ReturnKeys ==
  { Key(FALSE, TRUE, FALSE, FALSE, FALSE, FALSE),
    Key(FALSE, FALSE, TRUE, FALSE, FALSE, FALSE),
    Key(FALSE, FALSE, FALSE, FALSE, FALSE, TRUE) }

ReturnUpdate == UpdateWith(ReturnKeys, WalkStreams, MaxReturnTicks, MaxHandlers)

NextReturn ==
  \/ ReturnUpdate
  \/ ClickStart
  \/ LoadingDone
  \/ startActualGame
  \/ returnToStartScreen

SpecReturn == InitWalk /\ [][NextReturn]_vars

\* ==================================================================== claims
\* the steps of a behaviour, told apart by what they do to the counters
IsTick == ticks' = ticks + 1
IsReset == startHandlers' = startHandlers + 1
IsReload == ticks' = 0 /\ ticks > 0

\* C1: the tick in which health becomes <= 0 sets gameOver and runs the
\* game-over block exactly once per session, however many enemies overlap the
\* player in that tick; while gameOver is set no update() tick changes score,
\* health, round or enemySpeed.
C1_GameOverOnce ==
  /\ [](gameOverRuns = IF gameOver THEN 1 ELSE 0)
  /\ [][ /\ ((health > 0 /\ health' <= 0) =>
               (IsTick /\ gameOver' /\ gameOverRuns' = 1))
          /\ ((gameOver /\ IsTick) =>
               UNCHANGED << score, health, round, enemySpeed, gameOver >>) ]_vars

\* the game-over tick had more enemies on the player than it took to end the game
C1_Witness ==
  /\ gameOver /\ last.op = "update"
  /\ last.overlapping >= 2 /\ last.hits >= 1 /\ last.hits < last.overlapping

\* C2 (as claimed): in a tick whose collectible pass runs, every collectible
\* that is visible and in range of the player when the pass starts is
\* collected in that tick, and the score rises by SCORE_PER_COLLECTIBLE for each.
C2_EveryInRangeCollected ==
  last.op = "update" => last.collected = last.inRange

\* C3: round changes in a tick only by +1 and only in the step in which a
\* collection empties the group, enemySpeed rises by 1 in the same step;
\* round >= 1 and enemySpeed = ENEMY_SPEED + (round - 1) always.
C3_RoundAndSpeed ==
  /\ [](round >= 1 /\ enemySpeed = ENEMY_SPEED + (round - 1))
  /\ [][ IsTick => /\ last'.advances \in {0, 1}
                    /\ round' = round + last'.advances
                    /\ enemySpeed' = enemySpeed + last'.advances
                    /\ ((last'.advances = 1) <=>
                          (last'.collected >= 1 /\ last'.collected = Len(collectibles))) ]_vars

\* a round advance has just happened
C3_Witness ==
  /\ last.op = "update" /\ last.advances = 1
  /\ round = 2 /\ enemySpeed = ENEMY_SPEED + 1

\* no sprite is a member of the group twice
NoDuplicates(group) == Cardinality(Ids(group)) = Len(group)

\* C4 (as claimed): right after a round advance in which no construction
\* failed the collectibles group holds COLLECTIBLE_COUNT members; at every
\* tick boundary it holds between 1 and COLLECTIBLE_COUNT members, none twice.
C4_CollectibleCountFrom1 ==
  /\ (last.op = "update" /\ last.advances = 1 /\ ~last.failed) =>
        Len(collectibles) = COLLECTIBLE_COUNT
  /\ Len(collectibles) \in 1..COLLECTIBLE_COUNT
  /\ NoDuplicates(collectibles)

\* C4 (amended): right after a round advance in which no construction failed
\* the group holds COLLECTIBLE_COUNT members; at every tick boundary it holds
\* between 0 and COLLECTIBLE_COUNT members, none twice, and at least 1 when no
\* construction has failed since create() or the last reset.
C4_CollectibleCount ==
  /\ (last.op = "update" /\ last.advances = 1 /\ ~last.failed) =>
        Len(collectibles) = COLLECTIBLE_COUNT
  /\ Len(collectibles) \in 0..COLLECTIBLE_COUNT
  /\ (~spawnFailed => Len(collectibles) >= 1)
  /\ NoDuplicates(collectibles)

\* a round advance without failure has just refilled the group
C4_Witness ==
  /\ last.op = "update" /\ last.advances = 1 /\ ~last.failed /\ ~spawnFailed
  /\ Len(collectibles) = COLLECTIBLE_COUNT

\* C5: a round advance adds one enemy, of one of the three types, and a tick
\* removes none (only returnToStartScreen and a reload rebuild the group);
\* absent construction failure the group holds ENEMY_COUNT + (round - 1)
\* enemies, and the enemies that are not 'random' came from round advances.
C5_EnemyCount ==
  /\ []( /\ \A j \in 1..Len(enemies) :
              \E t \in 1..Len(ENEMY_TYPES) : enemies[j].type = ENEMY_TYPES[t]
         /\ (~spawnFailed => Len(enemies) = ENEMY_COUNT + (round - 1))
         /\ Cardinality({ j \in 1..Len(enemies) : enemies[j].type # "random" })
              <= round - 1
         /\ NoDuplicates(enemies) )
  /\ [][ /\ (IsTick =>
                /\ Len(enemies') >= Len(enemies)
                /\ Len(enemies') <= Len(enemies) + last'.advances
                /\ (~last'.failed => Len(enemies') = Len(enemies) + last'.advances))
          /\ (Len(enemies') < Len(enemies) => (IsReset \/ IsReload)) ]_vars

\* a round advance without failure has added a sixth enemy that is not 'random'
C5_Witness ==
  /\ round = 2 /\ ~spawnFailed
  /\ Len(enemies) = ENEMY_COUNT + 1
  /\ enemies[ENEMY_COUNT + 1].type # "random"

\* C6: in a tick whose enemy collision pass runs with k visible enemies in
\* range, each applies DAMAGE_PER_ENEMY until the game is over:
\* health after = max(0, health before - DAMAGE_PER_ENEMY * k).
C6_DamagePerEnemy ==
  last.op = "update" =>
    /\ health = Max(0, last.healthBefore - DAMAGE_PER_ENEMY * last.overlapping)
    /\ last.healthBefore - health = DAMAGE_PER_ENEMY * last.hits

\* several enemies have each taken their damage in one tick
C6_Witness ==
  /\ last.op = "update" /\ last.overlapping >= 2
  /\ health = last.healthBefore - DAMAGE_PER_ENEMY * last.overlapping
  /\ health > 0

\* C7: 0 <= health <= MAX_HEALTH, and gameOver is set exactly when health <= 0.
C7_HealthRange ==
  /\ health \in 0..MAX_HEALTH
  /\ gameOver <=> (health <= 0)

\* the game is over with health zero
C7_Witness == gameOver /\ health = 0 /\ last.op = "update"

\* C8: the player stays within [PLAYER_SIZE, WIDTH - PLAYER_SIZE] x
\* [PLAYER_SIZE, HEIGHT - PLAYER_SIZE].
C8_PlayerInBounds ==
  /\ player.x \in (PLAYER_SIZE * Unit)..((WIDTH - PLAYER_SIZE) * Unit)
  /\ player.y \in (PLAYER_SIZE * Unit)..((HEIGHT - PLAYER_SIZE) * Unit)

\* the player has walked into a corner and is held by the clamp on both axes
C8_Witness ==
  /\ ticks > (WIDTH \div 2 - PLAYER_SIZE) \div PLAYER_SPEED + 1
  /\ \/ player.x = PLAYER_SIZE * Unit /\ player.y = PLAYER_SIZE * Unit
     \/ /\ player.x = (WIDTH - PLAYER_SIZE) * Unit
        /\ player.y = (HEIGHT - PLAYER_SIZE) * Unit

\* C9 (as claimed): after every update() tick every enemy lies within
\* [ENEMY_SIZE, WIDTH - ENEMY_SIZE] x [ENEMY_SIZE, HEIGHT - ENEMY_SIZE].
C9_EnemyOwnSizeClamp ==
  last.op = "update" =>
    \A j \in 1..Len(enemies) :
      /\ enemies[j].x \in (ENEMY_SIZE * Unit)..((WIDTH - ENEMY_SIZE) * Unit)
      /\ enemies[j].y \in (ENEMY_SIZE * Unit)..((HEIGHT - ENEMY_SIZE) * Unit)

\* C10: a tick changes score, health, round or enemySpeed only if it starts
\* with introComplete set, gameOver clear and the player visible; while
\* introComplete is clear the four keep their initial values.
C10_OnlyWhilePlaying ==
  /\ [](~introComplete =>
          (score = 0 /\ health = MAX_HEALTH /\ round = 1 /\ enemySpeed = ENEMY_SPEED))
  /\ [][ (IsTick /\ << score, health, round, enemySpeed >>'
                      # << score, health, round, enemySpeed >>) =>
          (introComplete /\ ~gameOver /\ player.visible) ]_vars

\* a full tick on the title screen with an (invisible) enemy on the player
C10_Witness ==
  /\ ~introComplete /\ last.op = "update" /\ ~player.visible
  /\ \E j \in 1..Len(enemies) :
       Within(player.x, player.y, enemies[j].x, enemies[j].y, ENEMY_SIZE)
  /\ \E j \in 1..Len(collectibles) :
       Within(player.x, player.y, collectibles[j].x, collectibles[j].y, COLLECTIBLE_SIZE)

\* the positions of the members of a group, in group order
Positions(group) == [j \in 1..Len(group) |-> << group[j].x, group[j].y >>]

\* C11 (as claimed): in a tick taken while introComplete is clear the
\* positions of the player and of every enemy do not change, whatever keys
\* are held.
C11_MovementInert ==
  [][ (IsTick /\ ~introComplete) =>
        /\ player'.x = player.x /\ player'.y = player.y
        /\ Positions(enemies') = Positions(enemies) ]_vars

\* every member of the group is hidden
AllHidden(group) == \A j \in 1..Len(group) : ~group[j].visible

\* the session fields returnToStartScreen assigns, as it leaves them
ResetFields ==
  /\ score = 0 /\ health = MAX_HEALTH /\ round = 1
  /\ enemySpeed = ENEMY_SPEED
  /\ ~introComplete /\ ~gameOver
  /\ \A j \in 1..Len(enemies) : enemies[j].type = "random"
  /\ ~player.visible /\ AllHidden(enemies) /\ AllHidden(collectibles)

\* C12 (as claimed): after returnToStartScreen the session fields are the
\* initial ones, the enemies group holds exactly ENEMY_COUNT 'random'
\* enemies, the collectibles group exactly COLLECTIBLE_COUNT, all hidden.
C12_ResetExactCounts ==
  (last.op = "reset") =>
     /\ ResetFields
     /\ Len(enemies) = ENEMY_COUNT
     /\ Len(collectibles) = COLLECTIBLE_COUNT

\* C12 (amended): after returnToStartScreen the session fields are the
\* initial ones, every enemy is 'random', everything is hidden, and the
\* groups hold at most ENEMY_COUNT and COLLECTIBLE_COUNT members, exactly
\* that many when no construction of the reset failed.
C12_ResetState ==
  (last.op = "reset") =>
     /\ ResetFields
     /\ Len(enemies) <= ENEMY_COUNT /\ NoDuplicates(enemies)
     /\ Len(collectibles) <= COLLECTIBLE_COUNT /\ NoDuplicates(collectibles)
     /\ (~spawnFailed => /\ Len(enemies) = ENEMY_COUNT
                         /\ Len(collectibles) = COLLECTIBLE_COUNT)

\* a reset that found a damaged game and rebuilt both groups in full
C12_Witness ==
  /\ last.op = "reset" /\ last.healthBefore < MAX_HEALTH
  /\ health = MAX_HEALTH /\ ~spawnFailed
  /\ Len(enemies) = ENEMY_COUNT /\ Len(collectibles) = COLLECTIBLE_COUNT

\* the session state the reset is about: the gameState fields, the size and
\* the types of the enemies group, the size of the collectibles group and
\* the visibility of everything
SessionSummary ==
  << score, health, round, enemySpeed, introComplete, gameOver,
     [j \in 1..Len(enemies) |-> enemies[j].type],
     [j \in 1..Len(enemies) |-> enemies[j].visible],
     [j \in 1..Len(collectibles) |-> collectibles[j].visible],
     player.visible >>

\* C13 (as claimed): a returnToStartScreen that runs right after another one
\* leaves the session state as the first one left it.
C13_ResetIdempotentAlways ==
  [][ (IsReset /\ last.op = "reset") => SessionSummary' = SessionSummary ]_vars

\* C13 (amended): a returnToStartScreen that runs right after another one
\* leaves the session state as the first one left it, when no construction
\* failed in either call; the gameState fields, the types and the
\* visibility are the same in any case.
C13_ResetIdempotent ==
  [][ (IsReset /\ last.op = "reset") =>
        /\ << score, health, round, enemySpeed, introComplete, gameOver,
              player.visible >>' =
           << score, health, round, enemySpeed, introComplete, gameOver,
              player.visible >>
        /\ \A j \in 1..Len(enemies') :
              enemies'[j].type = "random" /\ ~enemies'[j].visible
        /\ AllHidden(collectibles')
        /\ ((~spawnFailed /\ ~spawnFailed') => SessionSummary' = SessionSummary) ]_vars

\* two calls in a row, neither with a failed construction
C13_Witness ==
  /\ last.op = "reset" /\ last.resets = 2 /\ ~spawnFailed
  /\ Len(enemies) = ENEMY_COUNT /\ Len(collectibles) = COLLECTIBLE_COUNT

\* C14 (as claimed): a tick taken while playing that detects no new ESC press
\* runs both collision passes whatever keys are held, the spacebar included:
\* a visible enemy within ENEMY_SIZE of the player costs health in that tick,
\* and a visible collectible within COLLECTIBLE_SIZE is collected in that
\* tick (read here as: at least one of those in range is, which the forEach
\* over the live array does achieve whenever the pass runs).
C14_PassesAlwaysRun ==
  (last.op \in {"update", "blocked"}) =>
     /\ (last.overlapping > 0 => health < last.healthBefore)
     /\ (last.inRange > 0 => last.collected > 0)

C16_RoundBonus ==
  [][ (IsTick /\ last'.advances = 1) =>
        score' > score + SCORE_PER_COLLECTIBLE * last'.collected ]_vars

\* C17: after every tick escapePressed is the state of ESC the tick read; a
\* call of returnToStartScreen is scheduled exactly in a tick that reads ESC
\* down when the tick before it (if any since the page loaded) read it up,
\* and then one call only, in whatever phase; a pending call goes away only
\* by running or with the page; and every pending call eventually does.
C17_EscapeOnce ==
  /\ [][ IsTick => escapePressed' = last'.esc ]_vars
  /\ [][ /\ (returnTimers' > returnTimers) <=> (IsTick /\ last'.esc /\ ~escapePressed)
         /\ (returnTimers' > returnTimers) => (returnTimers' = returnTimers + 1)
         /\ (returnTimers' < returnTimers) =>
               ((IsReset /\ returnTimers' = returnTimers - 1) \/ IsReload) ]_vars
  /\ \A n \in 1..MaxMenuHandlers : (returnTimers = n) ~> (returnTimers < n)

\* ESC is still held in a later tick of the hold that scheduled the one
\* pending call
C17_Witness ==
  /\ last.op \in {"update", "over", "blocked"} /\ last.esc /\ escapePressed
  /\ returnTimers = 1 /\ startHandlers = 1 /\ ticks >= 2

\* C18: the tick that advances the round attempts all COLLECTIBLE_COUNT
\* respawns and the enemy spawn whether or not a construction fails, still
\* steps round and enemySpeed, and adds exactly the entities whose
\* construction succeeded (fewer than attempted if and only if one failed);
\* a tick that runs to the end of update() once a construction has failed
\* still moves and collides: an enemy in range costs health, a collectible
\* in range is collected.
C18_FailureDoesNotHalt ==
  /\ [][ (IsTick /\ last'.advances = 1) =>
           /\ last'.attempts = COLLECTIBLE_COUNT + 1
           /\ round' = round + 1 /\ enemySpeed' = enemySpeed + 1
           /\ Len(enemies') >= Len(enemies)
           /\ Len(collectibles') + (Len(enemies') - Len(enemies)) <= last'.attempts
           /\ (last'.failed <=>
                 Len(collectibles') + (Len(enemies') - Len(enemies)) < last'.attempts) ]_vars
  /\ []((spawnFailed /\ last.op = "update") =>
          /\ (last.overlapping > 0 => health < last.healthBefore)
          /\ (last.inRange > 0 => last.collected > 0))

\* a tick after the round advance whose first construction failed: it
\* collects from the respawned batch and the new enemy hits the player
C18_Witness ==
  /\ round = 2 /\ spawnFailed /\ Len(enemies) = ENEMY_COUNT + 1
  /\ last.op = "update" /\ last.advances = 0 /\ ~last.failed
  /\ last.collected > 0 /\ last.hits > 0

\* the indices of the patrol enemies
Patrols == { j \in 1..Len(enemies) : enemies[j].type = "patrol" }

\* C19: moveCounter stays within 0..60, and in a tick a patrol enemy changes
\* moveDirection only by a re-roll, which comes after at least 60 movement
\* ticks made since its spawn or its previous re-roll.
C19_PatrolHoldsDirection ==
  /\ [](\A j \in Patrols : enemies[j].moveCounter \in 0..PATROL_PERIOD)
  /\ [][ IsTick =>
           \A j \in Patrols :
              /\ enemies'[j].age \in { enemies[j].age, enemies[j].age + 1 }
              /\ (enemies'[j].moveDirection # enemies[j].moveDirection =>
                    enemies'[j].rolledAt = enemies[j].age + 1)
              /\ (enemies'[j].rolledAt # enemies[j].rolledAt =>
                    /\ enemies'[j].rolledAt = enemies[j].age + 1
                    /\ enemies[j].age - enemies[j].rolledAt >= PATROL_PERIOD) ]_vars

\* a patrol enemy after its second re-roll
C19_Witness ==
  \E j \in Patrols :
     /\ enemies[j].rolledAt > 2 * PATROL_PERIOD
     /\ enemies[j].age = enemies[j].rolledAt

\* C20 (as claimed): a patrol enemy re-rolls exactly at its 60th, 120th,
\* 180th ... movement tick after spawn.
C20_RerollEvery60 ==
  \A j \in Patrols :
     enemies[j].rolledAt = PATROL_PERIOD * (enemies[j].age \div PATROL_PERIOD)

\* C21: in a tick that runs to the end of update() the collectible pass is
\* complete before the enemy pass starts: the points of the collectibles in
\* range and the round advance are applied also when the enemy pass of the
\* same tick ends the game, and an enemy the round advance spawns within
\* ENEMY_SIZE of the player counts among the enemies that damage the player
\* in that tick.
C21_CollectiblePassFirst ==
  [][ (IsTick /\ last'.op = "update") =>
        LET spawned == last'.advances = 1 /\ Len(enemies') = Len(enemies) + 1
            new == enemies'[Len(enemies')]
            near == spawned /\ Within(player'.x, player'.y, new.x, new.y, ENEMY_SIZE)
        IN /\ (last'.inRange > 0 => last'.collected > 0)
           /\ score' = score + SCORE_PER_COLLECTIBLE * last'.collected
           /\ round' = round + last'.advances
           /\ ((last'.advances = 1) <=>
                 (last'.collected >= 1 /\ last'.collected = Len(collectibles)))
           /\ last'.overlapping = last'.overlappingBefore + (IF near THEN 1 ELSE 0)
           /\ health' = Max(0, health - DAMAGE_PER_ENEMY * last'.overlapping) ]_vars

\* the tick that collects the last collectible, advances the round, gets the
\* new enemy on the player and ends the game
C21_Witness ==
  /\ gameOver /\ health = 0 /\ last.op = "update"
  /\ last.collected = 1 /\ last.advances = 1 /\ round = 2
  /\ score = SCORE_PER_COLLECTIBLE * COLLECTIBLE_COUNT
  /\ last.overlapping = last.overlappingBefore + 1

\* C22 (as claimed): in every state with gameOver set the player, every
\* enemy and every collectible are invisible.
C22_GameOverStaysHidden ==
  gameOver => (~player.visible /\ AllHidden(enemies) /\ AllHidden(collectibles))

\* C23 (as claimed): once returnToStartScreen has run, introComplete stays
\* clear and every entity stays invisible until a start input follows that
\* reset.  The PRESS START button is shown by the reset and hidden by every
\* start input, so it is visible exactly while no start input has followed.
C23_AttractUntilStart ==
  (startHandlers > 1 /\ startButton) =>
     /\ ~introComplete
     /\ ~player.visible /\ AllHidden(enemies) /\ AllHidden(collectibles)

\* C24 (as claimed): introComplete is set only by startActualGame, whose
\* timer is scheduled only by the loading timer, which is scheduled only by a
\* start input (click or spacebar); and a start input given on the title
\* screen starts a loading sequence, whose timers lead to introComplete.
C24_StartLeadsToGame ==
  [][ /\ ((introComplete' /\ ~introComplete) =>
            (startTimers > 0 /\ startTimers' = startTimers - 1))
      /\ ((startTimers' > startTimers) =>
            (loadingTimers > 0 /\ loadingTimers' = loadingTimers - 1))
      /\ ((loadingTimers' > loadingTimers) => last'.op \in {"space", "click"})
      /\ ((last'.op \in {"space", "click"} /\ startButton /\ ~introComplete) =>
            loadingTimers' > loadingTimers) ]_vars

\* 1 for a key that is held, 0 otherwise
Held(b) == IF b THEN 1 ELSE 0

\* C25: a tick that reaches the player movement moves the player by
\* PLAYER_SPEED * ([right] - [left]) and PLAYER_SPEED * ([down] - [up]),
\* clamped to the field: the four keys act independently, opposite keys
\* cancel, a diagonal moves PLAYER_SPEED on both axes.
C25_PlayerDisplacement ==
  [][ (IsTick /\ last'.op \in {"update", "blocked"}) =>
        LET k == last'.keys
            dx == PLAYER_SPEED * Unit * (Held(k.right) - Held(k.left))
            dy == PLAYER_SPEED * Unit * (Held(k.down) - Held(k.up))
        IN /\ player'.x = Clamp(player.x + dx, PLAYER_SIZE * Unit,
                                (WIDTH - PLAYER_SIZE) * Unit)
           /\ player'.y = Clamp(player.y + dy, PLAYER_SIZE * Unit,
                                (HEIGHT - PLAYER_SIZE) * Unit)
           /\ player'.x = player.x + dx /\ player'.y = player.y + dy ]_vars

\* a diagonal step followed by a tick with left and right both held
C25_Witness ==
  /\ last.op = "update" /\ last.keys.left /\ last.keys.right
  /\ last.keys.down /\ ~last.keys.up
  /\ player.x = (WIDTH \div 2 + PLAYER_SPEED) * Unit
  /\ player.y = (HEIGHT \div 2 + 2 * PLAYER_SPEED) * Unit

\* the absolute value
Abs(a) == IF a < 0 THEN -a ELSE a

\* the step (dx, dy) has the heading of (tx, ty) and the length
\* speedScalar * 0.3 * 0.8, each up to the truncation of the two components
\* to the fixed-point grid
ChaseStepTowards(dx, dy, tx, ty, speedScalar) ==
  LET len100 == speedScalar * 24 * Unit
  IN /\ dx * tx >= 0 /\ dy * ty >= 0
     /\ Abs(dx * ty - dy * tx) <= Abs(tx) + Abs(ty)
     /\ 10000 * (dx * dx + dy * dy) <= (len100 + 150) * (len100 + 150)
     /\ 10000 * (dx * dx + dy * dy) >= (len100 - 150) * (len100 - 150)

\* C26 (as claimed): in a tick in which the player is visible a chaser steps
\* by enemySpeed * 0.3 * 0.8 towards the position the player has after that
\* tick's player movement; in a tick in which the player is not visible the
\* chaser stays where it is.
C26_ChaserEveryVisibleTick ==
  [][ IsTick =>
        \A j \in Chasers :
           IF player.visible
           THEN ChaseStepTowards(enemies'[j].x - enemies[j].x,
                                 enemies'[j].y - enemies[j].y,
                                 player'.x - enemies[j].x,
                                 player'.y - enemies[j].y, enemySpeed)
           ELSE enemies'[j].x = enemies[j].x /\ enemies'[j].y = enemies[j].y ]_vars

\* C26 (amended): a chaser moves only in a tick that reaches the enemy
\* movement loop with the player visible; in such a tick it steps by
\* enemySpeed * 0.3 * 0.8 towards the position the player has after that
\* tick's player movement; in every other tick it stays where it is.
C26_ChaserStep ==
  [][ IsTick =>
        \A j \in Chasers :
           IF last'.op = "update" /\ player.visible
           THEN ChaseStepTowards(enemies'[j].x - enemies[j].x,
                                 enemies'[j].y - enemies[j].y,
                                 player'.x - enemies[j].x,
                                 player'.y - enemies[j].y, enemySpeed)
           ELSE enemies'[j].x = enemies[j].x /\ enemies'[j].y = enemies[j].y ]_vars

\* the player has walked up from the centre and the chaser that spawned on
\* the centre has followed
C26_Witness ==
  /\ last.op = "update" /\ last.keys.up /\ player.visible
  /\ player.y < (HEIGHT \div 2) * Unit
  /\ \E j \in Chasers :
        enemies[j].y < (HEIGHT \div 2) * Unit /\ enemies[j].y > player.y

\* C27: a tick advances the round at most once: round and enemySpeed grow by
\* the number of advances, which is 0 or 1, and the score by at most
\* SCORE_PER_COLLECTIBLE * COLLECTIBLE_COUNT. In a tick that advances the
\* round only the last collectible of the old round is collected: the
\* collectibles the advance spawns are all still in the group, visible, after
\* the tick, also those within COLLECTIBLE_SIZE of the player.
C27_OneAdvancePerTick ==
  [][ IsTick =>
        /\ last'.advances \in {0, 1}
        /\ round' = round + last'.advances
        /\ enemySpeed' = enemySpeed + last'.advances
        /\ score' <= score + SCORE_PER_COLLECTIBLE * COLLECTIBLE_COUNT
        /\ last'.advances = 1 =>
              /\ Len(collectibles) = 1
              /\ last'.collected = 1
              /\ score' = score + SCORE_PER_COLLECTIBLE
              /\ Len(collectibles') <= COLLECTIBLE_COUNT
              /\ ~last'.failed => Len(collectibles') = COLLECTIBLE_COUNT ]_vars

\* a tick has advanced the round and a collectible it spawned lies within
\* COLLECTIBLE_SIZE of the player, uncollected
C27_Witness ==
  /\ last.op = "update" /\ last.advances = 1
  /\ Len(collectibles) = COLLECTIBLE_COUNT
  /\ \E i \in 1..Len(collectibles) :
        /\ collectibles[i].visible
        /\ Within(player.x, player.y, collectibles[i].x, collectibles[i].y,
                  COLLECTIBLE_SIZE)

\* C28 (as claimed): the spacebar never carries more than one startGame
\* listener; a start input (click or spacebar) starts exactly one loading
\* sequence, also after returns to the start screen; and during gameplay,
\* where the start handler is not active, a spacebar press starts none.
C28_OneStartPerInput ==
  /\ [](startHandlers <= 1)
  /\ [][ (last'.op \in {"space", "click"} /\ restartHandlers = 0) =>
           loadingTimers' = loadingTimers + (IF introComplete THEN 0 ELSE 1) ]_vars

\* C29: returnToStartScreen hides the player and leaves its position as it
\* is; no step other than an update() tick moves the player, so the position
\* at the start of the next session is the position at the reset plus the
\* movement of the ticks on the title and loading screens.
C29_ResetKeepsPosition ==
  [][ /\ IsReset => ~player'.visible
      /\ ~IsTick => (player'.x = player.x /\ player'.y = player.y) ]_vars

\* a session that was started after a return to the start screen begins with
\* the player away from the centre
C29_Witness ==
  /\ startHandlers > 1 /\ introComplete /\ player.visible
  /\ last.op = "idle"
  /\ \/ player.x # (WIDTH \div 2) * Unit
     \/ player.y # (HEIGHT \div 2) * Unit

====
